---- MODULE Spec2Model ----
(***************************************************************************)
(* The download coordinator (torrent.Download), the peer workers           *)
(* (torrent.startWorker, torrent.attemptDownloadPiece), the piece planner  *)
(* (torrent.CreatePieceList) and the wire helpers they use (p2p.Read,      *)
(* p2p.FormatRequest).                                                     *)
(*                                                                         *)
(* Byte strings (piece buffers, block payloads) are kept run-length        *)
(* encoded: a sequence of runs [n |-> count, v |-> byte value].  The true  *)
(* content of piece i is Length_i bytes of value i+1, a fresh buffer is    *)
(* all 0, and a corrupt byte is 255.                                       *)
(***************************************************************************)
EXTENDS Integers, Sequences, FiniteSets, Bags, TLC

\* ---------------------------------------------------------------- bounds
MaxPeers == 2          \* peers handed to Download
MaxSkew == 1           \* bytes by which unrequested block sizes may shift downloaded
MaxRuns == 1
MaxEntries == 2        \* key/value pairs in a decoded dictionary
MaxBytes == 1          \* bytes of a Bitfield
MaxTotal == 5          \* metainfo lengths, piece lengths and hash counts given to the planner

\* ------------------------------------------------------ program constants
blockSize == 16384
maxBacklog == 10
MsgChoke == 0
MsgUnchoke == 1
MsgHave == 4
MsgBitfield == 5
MsgRequest == 6
MsgPiece == 7
MsgCancel == 8
CorruptByte == 255

Min(a, b) == IF a < b THEN a ELSE b

\* uint32(x) of an int in 0..2^31-1, the range of every length and offset here
Uint32(x) == IF x >= 0 THEN x ELSE x + 2147483647 + 1

\* ------------------------------------------------------------ byte strings
RECURSIVE BufLen(_)
BufLen(b) == IF b = <<>> THEN 0 ELSE Head(b).n + BufLen(Tail(b))

\* canonical form: no empty run, no two adjacent runs of one value
RECURSIVE Norm(_)
Norm(b) ==
    IF b = <<>> THEN <<>>
    ELSE IF Head(b).n = 0 THEN Norm(Tail(b))
    ELSE LET r == Norm(Tail(b)) IN
         IF r # <<>> /\ Head(r).v = Head(b).v
         THEN <<[n |-> Head(b).n + Head(r).n, v |-> Head(b).v]>> \o Tail(r)
         ELSE <<Head(b)>> \o r

\* b[:k]
RECURSIVE TakeBytes(_, _)
TakeBytes(b, k) ==
    IF k <= 0 \/ b = <<>> THEN <<>>
    ELSE IF Head(b).n <= k THEN <<Head(b)>> \o TakeBytes(Tail(b), k - Head(b).n)
    ELSE <<[n |-> k, v |-> Head(b).v]>>

\* b[k:]
RECURSIVE DropBytes(_, _)
DropBytes(b, k) ==
    IF b = <<>> THEN <<>>
    ELSE IF k <= 0 THEN b
    ELSE IF Head(b).n <= k THEN DropBytes(Tail(b), k - Head(b).n)
    ELSE <<[n |-> Head(b).n - k, v |-> Head(b).v]>> \o Tail(b)

\* make([]byte, n)
MakeBytes(n) == Norm(<<[n |-> n, v |-> 0]>>)

\* copy(dst[begin:], src) for begin <= len(dst): min(len(src), len(dst)-begin) bytes move
CopyAt(dst, begin, src) ==
    LET m == Min(BufLen(src), BufLen(dst) - begin) IN
    Norm(TakeBytes(dst, begin) \o TakeBytes(src, m) \o DropBytes(dst, begin + m))

\* sha1.Sum: an ideal (collision-free) digest of the byte string
Sha1(b) == [sha1len |-> BufLen(b), sha1of |-> Norm(b)]

\* ------------------------------------------------------------ piece planner
RECURSIVE SumLengths(_)
SumLengths(files) == IF files = <<>> THEN 0 ELSE Head(files) + SumLengths(Tail(files))

\* the bytes of the shared file that piece i covers; the metainfo's `pieces`
\* blob holds their digests
Content(t, i) ==
    LET T == IF t.Length > 0 THEN t.Length ELSE SumLengths(t.Files)
        left == T - i * t.PieceLength
    IN  Norm(<<[n |-> IF left < 0 THEN 0 ELSE Min(t.PieceLength, left), v |-> i + 1]>>)

rawHashes(t) == [i \in 0..(t.NumHashes - 1) |-> Sha1(Content(t, i))]

\* every piece, the last one too, gets the nominal piece length
CreatePieceListNoRemainder(t) ==
    [i \in 0..(t.NumHashes - 1) |->
        [Index |-> i, Hash |-> rawHashes(t)[i], Length |-> t.PieceLength]]

CreatePieceList(t) ==
    LET numPieces == t.NumHashes
        totalLength == IF t.Length > 0 THEN t.Length ELSE SumLengths(t.Files)
        lastPiecelength == totalLength % t.PieceLength
    IN  [i \in 0..(numPieces - 1) |->
            [Index  |-> i,
             Hash   |-> rawHashes(t)[i],
             Length |-> IF i = numPieces - 1 /\ lastPiecelength > 0
                        THEN lastPiecelength ELSE t.PieceLength]]

\* --------------------------------------------------------------- the state
VARIABLES
    torrent,     \* t.Info: Length, Files, PieceLength, NumHashes = len(Pieces)/20
    peers,       \* the peers slice: what kind of remote each worker talks to
    disk,        \* whether the output file can fail an open or a write
    pieces,      \* Download's pieces
    workQueue,   \* buffered channel of PieceWork, capacity len(pieces)
    closed,      \* close(workQueue) has run
    wpc,         \* each worker's position in startWorker
    wpw,         \* each worker's pw
    requested,   \* attemptDownloadPiece's requested
    downloaded,  \* attemptDownloadPiece's downloaded
    buf,         \* attemptDownloadPiece's buf
    sent,        \* REQUEST messages written during the current attempt
    interested,  \* INTERESTED has been written
    hsbuf,       \* the 68 bytes Unserialize read off the connection
    watch,       \* whether rx is kept (history, not program state)
    rx,          \* history: what each worker's last p2p.Read saw and returned
    cpc,         \* the coordinator's position in Download
    res,         \* Download's res
    doneCount,   \* Download's doneCount
    file,        \* the WriteAt calls that succeeded, in order
    panicked,    \* a goroutine panicked: the process is gone
    bf,          \* a Bitfield
    dec          \* a bencode Decoder: its data and RawInfo, and what Decode returned

vars == <<torrent, peers, disk, pieces, workQueue, closed, wpc, wpw, requested,
          downloaded, buf, sent, interested, hsbuf, watch, rx, cpc, res,
          doneCount, file, panicked, bf, dec>>

envVars == <<torrent, peers, disk, pieces, watch, bf, dec>>
attemptVars == <<requested, downloaded, buf, sent>>
coordVars == <<cpc, res, doneCount, file>>

Workers == DOMAIN peers
NumPieces == Cardinality(DOMAIN pieces)

NoWork == [Index |-> -1, Hash |-> Sha1(<<>>), Length |-> 0]
NoRes == [Index |-> -1, Buf |-> <<>>]

\* The 68 bytes of a handshake reply: byte 0 (pstrlen), and one 20-byte field
\* holding hash InfoHash at offset `at` (28 in a well-formed handshake); every
\* other byte is zero.  eof: the stream ends or the deadline passes first.
HandshakeFrame(p, a, h) == [eof |-> FALSE, pstrlen |-> p, at |-> a, InfoHash |-> h]
BrokenHandshake == [eof |-> TRUE, pstrlen |-> 0, at |-> 0, InfoHash |-> 0]
NoHandshake == [eof |-> FALSE, pstrlen |-> -1, at |-> 0, InfoHash |-> 0]

\* a nil RawInfo, and the slice data[start:end] of the decoder's input
NoRaw == [set |-> FALSE, start |-> 0, end |-> 0]
RawSlice(a, b) == [set |-> TRUE, start |-> a, end |-> b]

\* no Decoder made yet
NoDecoder == [root |-> "none", entries |-> <<>>, data |-> <<>>, RawInfo |-> NoRaw,
              state |-> "none"]

PieceWork(p) == [Index |-> p.Index, Hash |-> p.Hash, Length |-> p.Length]
PieceResult(index, b) == [Index |-> index, Buf |-> b]

\* ------------------------------------------------------------ wire helpers
infoHash == 1          \* the local info hash (an opaque 20-byte value)
otherInfoHash == 2     \* a different torrent's info hash

\* p2p.Unserialize: io.ReadFull, the pstrlen test, then the slices
\* buf[1:pstrlen+1], buf[pstrlen+1+8:pstrlen+1+8+20], buf[pstrlen+1+8+20:] of
\* the 68-byte buffer, which panic when they run past its end
Unserialize(f) ==
    IF f.eof THEN [err |-> TRUE, panic |-> FALSE, InfoHash |-> 0]
    ELSE IF f.pstrlen = 0 THEN [err |-> TRUE, panic |-> FALSE, InfoHash |-> 0]
    ELSE IF f.pstrlen + 1 + 8 + 20 > 68 THEN [err |-> FALSE, panic |-> TRUE, InfoHash |-> 0]
    ELSE [err |-> FALSE, panic |-> FALSE,
          InfoHash |-> IF f.pstrlen + 1 + 8 = f.at THEN f.InfoHash ELSE 0]

NoMsg == [ID |-> -1, Payload |-> [len |-> 0, begin |-> 0, block |-> <<>>]]

\* what arrives on the connection for one p2p.Read: a broken stream (EOF, reset,
\* the deadline passing), or a frame <length><id><payload>
BrokenFrame == [broken |-> TRUE, length |-> 0, ID |-> -1,
                payload |-> [len |-> 0, begin |-> 0, block |-> <<>>]]
KeepAliveFrame == [broken |-> FALSE, length |-> 0, ID |-> -1,
                   payload |-> [len |-> 0, begin |-> 0, block |-> <<>>]]
PlainFrame(id, n) == [broken |-> FALSE, length |-> n + 1, ID |-> id,
                      payload |-> [len |-> n, begin |-> 0, block |-> <<>>]]
\* PIECE: <index:4><begin:4><block>
PieceFrame(begin, n, v) ==
    [broken |-> FALSE, length |-> 9 + n, ID |-> MsgPiece,
     payload |-> [len |-> 8 + n, begin |-> Uint32(begin), block |-> Norm(<<[n |-> n, v |-> v]>>)]]
\* PIECE whose payload stops inside the index/begin header
ShortPieceFrame(n) == [broken |-> FALSE, length |-> n + 1, ID |-> MsgPiece,
                       payload |-> [len |-> n, begin |-> 0, block |-> <<>>]]

\* a zero length prefix is not special: the byte after it is taken as an ID
ReadZeroLengthAsMessage(f) ==
    IF f.broken THEN [err |-> TRUE, msg |-> NoMsg, n |-> 0]
    ELSE [err |-> FALSE, msg |-> [ID |-> f.ID, Payload |-> f.payload],
          n |-> 4 + (IF f.length = 0 THEN 1 ELSE f.length)]

\* p2p.Read: (nil, err) | (nil, nil) | (&Message{ID, Payload}, nil); n is the
\* number of bytes it took off the stream when it did not fail
Read(f) ==
    IF f.broken THEN [err |-> TRUE, msg |-> NoMsg, n |-> 0]
    ELSE IF f.length = 0 THEN [err |-> FALSE, msg |-> NoMsg, n |-> 4]
    ELSE [err |-> FALSE, msg |-> [ID |-> f.ID, Payload |-> f.payload], n |-> 4 + f.length]

\* history of a connection: the frame the last p2p.Read met, what Read returned
\* for it, and whether an UNCHOKE has ever been read
NoRx == [frame |-> BrokenFrame, ret |-> [err |-> FALSE, msg |-> NoMsg, n |-> 0],
         unchoked |-> FALSE]
Received(old, f, r) ==
    [frame |-> f, ret |-> r,
     unchoked |-> old.unchoked \/ (~r.err /\ r.msg # NoMsg /\ r.msg.ID = MsgUnchoke)]

FormatRequest(index, begin, length) ==
    [ID |-> MsgRequest,
     Payload |-> [index |-> Uint32(index), begin |-> Uint32(begin), length |-> Uint32(length)]]

\* ------------------------------------------------------------- environment
PeerKinds == {"seed", "faulty", "hostile"}
DiskKinds == {"ok", "flaky"}

KindRank(k) == CASE k = "seed" -> 1 [] k = "faulty" -> 2 [] OTHER -> 3

\* workers are interchangeable, so one order of each multiset of kinds is enough;
\* at most one peer is hostile
PeerLists ==
    {ps \in UNION {[1..n -> PeerKinds] : n \in 0..MaxPeers} :
        /\ \A i, j \in DOMAIN ps : i < j => KindRank(ps[i]) <= KindRank(ps[j])
        /\ Cardinality({i \in DOMAIN ps : ps[i] = "hostile"}) <= 1}

Torrents ==
    { [Length |-> 20000, Files |-> <<>>, PieceLength |-> 16385, NumHashes |-> 2] }

InitWith(t, ps, d) ==
    /\ torrent = t
    /\ peers = ps
    /\ disk = d
    /\ pieces = CreatePieceList(t)
    /\ workQueue = [i \in 1..t.NumHashes |-> PieceWork(CreatePieceList(t)[i - 1])]
    /\ closed = FALSE
    /\ wpc = [w \in DOMAIN ps |-> "dial"]
    /\ wpw = [w \in DOMAIN ps |-> NoWork]
    /\ requested = [w \in DOMAIN ps |-> 0]
    /\ downloaded = [w \in DOMAIN ps |-> 0]
    /\ buf = [w \in DOMAIN ps |-> <<>>]
    /\ sent = [w \in DOMAIN ps |-> <<>>]
    /\ interested = [w \in DOMAIN ps |-> FALSE]
    /\ hsbuf = [w \in DOMAIN ps |-> NoHandshake]
    /\ rx = [w \in DOMAIN ps |-> NoRx]
    /\ cpc = "open"
    /\ res = NoRes
    /\ doneCount = 0
    /\ file = EmptyBag
    /\ panicked = FALSE
    /\ bf = <<>>
    /\ dec = NoDecoder

Init ==
    /\ watch = FALSE
    /\ \E t \in Torrents, ps \in PeerLists, d \in DiskKinds : InitWith(t, ps, d)

\* ------------------------------------------------- what a remote peer may do
CanFail(w) == peers[w] # "seed"

\* the handshake a peer answers with
HandshakeReplies(w) ==
    {HandshakeFrame(19, 28, infoHash)}
      \cup (IF CanFail(w)
            THEN {BrokenHandshake, HandshakeFrame(19, 28, otherInfoHash)}
            ELSE {})
      \cup (IF peers[w] = "hostile"
            THEN {HandshakeFrame(0, 28, infoHash), HandshakeFrame(255, 28, otherInfoHash)}
            ELSE {})

\* the block a well-behaved peer sends next: requests are answered in order
ExpBegin(w) == downloaded[w]
ExpLen(w) == Min(blockSize, wpw[w].Length - downloaded[w])
TrueByte(w) == wpw[w].Index + 1

SeedFrames(w) == {PieceFrame(ExpBegin(w), ExpLen(w), TrueByte(w))}

\* blocks other than the seed's are offered while the buffer is still in few runs
Tidy(w) == Len(buf[w]) <= MaxRuns
\* block sizes nobody asked for are offered while they have shifted downloaded little
Aligned(w) == downloaded[w] % blockSize < MaxSkew

FaultyFrames(w) ==
    SeedFrames(w) \cup
    {BrokenFrame, KeepAliveFrame, PlainFrame(MsgChoke, 0), PlainFrame(MsgHave, 4)} \cup
    (IF Tidy(w) THEN {PieceFrame(ExpBegin(w), ExpLen(w), CorruptByte)} ELSE {})

HostileFrames(w) ==
    FaultyFrames(w) \cup
    {ShortPieceFrame(4), PlainFrame(MsgUnchoke, 0), PlainFrame(MsgBitfield, 1),
     PlainFrame(MsgCancel, 12)} \cup
    (IF Tidy(w)
     THEN {PieceFrame(b, n, TrueByte(w)) :
              b \in {0, ExpBegin(w), wpw[w].Length, wpw[w].Length + 1},
              n \in {0, ExpLen(w)} \cup (IF Aligned(w) THEN {1, ExpLen(w) + 1} ELSE {})}
     ELSE {})

Frames(w) ==
    CASE peers[w] = "seed" -> SeedFrames(w)
      [] peers[w] = "faulty" -> FaultyFrames(w)
      [] OTHER -> HostileFrames(w)

\* ---------------------------------------------------------------- startWorker
Dial(w) ==
    /\ ~panicked
    /\ wpc[w] = "dial"
    /\ \/ wpc' = [wpc EXCEPT ![w] = "handshake"]
       \/ CanFail(w) /\ wpc' = [wpc EXCEPT ![w] = "terminated"]
    /\ UNCHANGED <<envVars, workQueue, closed, wpw, attemptVars, interested, hsbuf, rx, coordVars, panicked>>

\* bytes.Equal(res.InfoHash[:], infoHash[:])
InfoHashUnchecked(r) == TRUE
InfoHashOk(r) == r.InfoHash = infoHash

\* the handshake write, Unserialize, the info hash comparison and, when all
\* three pass, the INTERESTED write; a worker that returns here leaves no
\* handshake buffer behind
Handshake(w) ==
    /\ ~panicked
    /\ wpc[w] = "handshake"
    /\ \/ /\ CanFail(w)
          /\ wpc' = [wpc EXCEPT ![w] = "terminated"]
          /\ UNCHANGED <<interested, hsbuf, panicked>>
       \/ \E f \in HandshakeReplies(w) :
             LET r == Unserialize(f) IN
             IF r.panic
             THEN /\ hsbuf' = [hsbuf EXCEPT ![w] = f]
                  /\ panicked' = TRUE
                  /\ UNCHANGED <<wpc, interested>>
             ELSE IF r.err \/ ~InfoHashOk(r)
             THEN /\ wpc' = [wpc EXCEPT ![w] = "terminated"]
                  /\ UNCHANGED <<interested, hsbuf, panicked>>
             ELSE /\ hsbuf' = [hsbuf EXCEPT ![w] = f]
                  /\ wpc' = [wpc EXCEPT ![w] = "loop"]
                  /\ interested' = [interested EXCEPT ![w] = TRUE]
                  /\ UNCHANGED panicked
    /\ UNCHANGED <<envVars, workQueue, closed, wpw, attemptVars, rx, coordVars>>

\* for pw := range workQueue, and the entry into attemptDownloadPiece
TakeWork(w) ==
    /\ ~panicked
    /\ wpc[w] = "loop"
    /\ workQueue # <<>>
    /\ LET pw == Head(workQueue) IN
        /\ workQueue' = Tail(workQueue)
        /\ wpw' = [wpw EXCEPT ![w] = pw]
        /\ buf' = [buf EXCEPT ![w] = MakeBytes(pw.Length)]
        /\ requested' = [requested EXCEPT ![w] = 0]
        /\ downloaded' = [downloaded EXCEPT ![w] = 0]
        /\ sent' = [sent EXCEPT ![w] = <<>>]
        /\ wpc' = [wpc EXCEPT ![w] = IF 0 < pw.Length THEN "download" ELSE "emit"]
    /\ UNCHANGED <<envVars, closed, interested, hsbuf, rx, coordVars, panicked>>

\* the range loop ends: the queue is closed and drained
QueueClosed(w) ==
    /\ ~panicked
    /\ wpc[w] = "loop"
    /\ workQueue = <<>>
    /\ closed
    /\ wpc' = [wpc EXCEPT ![w] = "done"]
    /\ UNCHANGED <<envVars, workQueue, closed, wpw, attemptVars, interested, hsbuf, rx, coordVars, panicked>>

\* workQueue <- x
SendDropped(q, x) == q
SendTwice(q, x) == Append(Append(q, x), x)
Send(q, x) == Append(q, x)

\* the length of the next block to request
BlockLengthUnclamped(w) == blockSize
BlockLength(w) ==
    IF wpw[w].Length - requested[w] < blockSize
    THEN wpw[w].Length - requested[w] ELSE blockSize

\* where a worker goes once it has put its failed piece back: return
FailExitLoop == "loop"
FailExit == "terminated"

\* the refill loop's condition
CanRequest(w) ==
    /\ requested[w] < wpw[w].Length
    /\ requested[w] - downloaded[w] < maxBacklog * blockSize

\* one turn of the refill loop
SendRequest(w) ==
    /\ ~panicked
    /\ wpc[w] = "download"
    /\ CanRequest(w)
    /\ LET length == BlockLength(w)
       IN \/ /\ sent' = [sent EXCEPT ![w] = Append(@, FormatRequest(wpw[w].Index, requested[w], length))]
             /\ requested' = [requested EXCEPT ![w] = @ + length]
             /\ UNCHANGED wpc
          \/ /\ CanFail(w)
             /\ wpc' = [wpc EXCEPT ![w] = "requeue"]
             /\ UNCHANGED <<sent, requested>>
    /\ UNCHANGED <<envVars, workQueue, closed, wpw, downloaded, buf, interested, hsbuf, rx, coordVars, panicked>>

\* msg.ID == p2p.MsgPiece
IsPieceAnyID(msg) == TRUE
IsPiece(msg) == msg.ID = MsgPiece

\* p2p.Read and the handling of what it returned, up to the outer loop's test
ReadMessage(w) ==
    /\ ~panicked
    /\ wpc[w] = "download"
    /\ ~CanRequest(w)
    /\ \E f \in Frames(w) :
        LET r == Read(f)
            msg == r.msg
        IN  /\ rx' = IF watch THEN [rx EXCEPT ![w] = Received(@, f, r)] ELSE rx
            /\ IF r.err
               THEN /\ wpc' = [wpc EXCEPT ![w] = "requeue"]
                    /\ UNCHANGED <<downloaded, buf, panicked>>
               ELSE IF msg = NoMsg \/ ~IsPiece(msg)
               THEN UNCHANGED <<wpc, downloaded, buf, panicked>>
               ELSE IF msg.Payload.len < 8 \/ msg.Payload.begin > BufLen(buf[w])
               THEN /\ panicked' = TRUE
                    /\ UNCHANGED <<wpc, downloaded, buf>>
               ELSE LET begin == msg.Payload.begin
                        blockData == msg.Payload.block
                        d == downloaded[w] + BufLen(blockData)
                    IN  /\ buf' = [buf EXCEPT ![w] = CopyAt(@, begin, blockData)]
                        /\ downloaded' = [downloaded EXCEPT ![w] = d]
                        /\ wpc' = [wpc EXCEPT ![w] = IF d < wpw[w].Length THEN "download" ELSE "emit"]
                        /\ UNCHANGED panicked
    /\ UNCHANGED <<envVars, workQueue, closed, wpw, requested, sent, interested, hsbuf, coordVars>>

\* workQueue <- pw; return
Requeue(w) ==
    /\ ~panicked
    /\ wpc[w] = "requeue"
    /\ IF closed
       THEN /\ panicked' = TRUE
            /\ UNCHANGED <<workQueue, wpc, wpw, attemptVars>>
       ELSE /\ Len(workQueue) < NumPieces
            /\ workQueue' = Send(workQueue, wpw[w])
            /\ wpc' = [wpc EXCEPT ![w] = FailExit]
            /\ wpw' = [wpw EXCEPT ![w] = NoWork]
            /\ requested' = [requested EXCEPT ![w] = 0]
            /\ downloaded' = [downloaded EXCEPT ![w] = 0]
            /\ buf' = [buf EXCEPT ![w] = <<>>]
            /\ sent' = [sent EXCEPT ![w] = <<>>]
            /\ UNCHANGED panicked
    /\ UNCHANGED <<envVars, closed, interested, hsbuf, rx, coordVars>>

\* results <- &PieceResult{...} meets res := <-results (the channel is unbuffered)
EmitResult(w) ==
    /\ ~panicked
    /\ wpc[w] = "emit"
    /\ cpc = "recv"
    /\ res' = PieceResult(wpw[w].Index, buf[w])
    /\ cpc' = "check"
    /\ wpc' = [wpc EXCEPT ![w] = "loop"]
    /\ wpw' = [wpw EXCEPT ![w] = NoWork]
    /\ requested' = [requested EXCEPT ![w] = 0]
    /\ downloaded' = [downloaded EXCEPT ![w] = 0]
    /\ buf' = [buf EXCEPT ![w] = <<>>]
    /\ sent' = [sent EXCEPT ![w] = <<>>]
    /\ UNCHANGED <<envVars, workQueue, closed, interested, hsbuf, rx, doneCount, file, panicked>>

\* ------------------------------------------------------------------ Download
\* bytes.Equal(hash[:], pieces[res.Index].Hash[:])
HashUnchecked(r) == TRUE
HashOk(r) == Sha1(r.Buf) = pieces[r.Index].Hash

\* doneCount < len(pieces)
LoopCondOffByOne == doneCount < NumPieces - 1
LoopCond == doneCount < NumPieces

OpenFile ==
    /\ ~panicked
    /\ cpc = "open"
    /\ \/ cpc' = "loop"
       \/ disk = "flaky" /\ cpc' = "failed"
    /\ UNCHANGED <<envVars, workQueue, closed, wpc, wpw, attemptVars, interested, hsbuf, rx,
                   res, doneCount, file, panicked>>

\* for doneCount < len(pieces) { res := <-results
AwaitResult ==
    /\ ~panicked
    /\ cpc = "loop"
    /\ LoopCond
    /\ cpc' = "recv"
    /\ UNCHANGED <<envVars, workQueue, closed, wpc, wpw, attemptVars, interested, hsbuf, rx,
                   res, doneCount, file, panicked>>

\* close(workQueue)
CloseForgotten == FALSE
Close == TRUE

\* the loop ends: close(workQueue); return nil
CloseQueue ==
    /\ ~panicked
    /\ cpc = "loop"
    /\ ~LoopCond
    /\ closed' = Close
    /\ cpc' = "returned"
    /\ UNCHANGED <<envVars, workQueue, wpc, wpw, attemptVars, interested, hsbuf, rx,
                   res, doneCount, file, panicked>>

\* the offset taken from the piece's own length instead of the nominal one
WriteAtOwnLength(f, r) ==
    f (+) SetToBag({[Offset |-> r.Index * pieces[r.Index].Length, Buf |-> r.Buf]})

\* file.WriteAt(res.Buf, offset) with offset := int64(res.Index) * t.Info.PieceLength
WriteAt(f, r) ==
    f (+) SetToBag({[Offset |-> r.Index * torrent.PieceLength, Buf |-> r.Buf]})

\* the hash differs: put the piece back and continue
RequeueMismatchFallsThrough ==
    /\ ~closed
    /\ Len(workQueue) < NumPieces
    /\ workQueue' = Send(workQueue, PieceWork(pieces[res.Index]))
    /\ file' = WriteAt(file, res)
    /\ doneCount' = doneCount + 1
    /\ cpc' = "loop"
    /\ res' = NoRes
    /\ UNCHANGED panicked
RequeueMismatch ==
    IF closed
    THEN /\ panicked' = TRUE
         /\ UNCHANGED <<workQueue, coordVars>>
    ELSE /\ Len(workQueue) < NumPieces
         /\ workQueue' = Send(workQueue, PieceWork(pieces[res.Index]))
         /\ cpc' = "loop"
         /\ res' = NoRes
         /\ UNCHANGED <<doneCount, file, panicked>>

\* the hash matches: write the piece, count it, or return the write's error
WriteVerified ==
    \/ /\ file' = WriteAt(file, res)
       /\ doneCount' = doneCount + 1
       /\ cpc' = "loop"
       /\ res' = NoRes
       /\ UNCHANGED <<workQueue, panicked>>
    \/ /\ disk = "flaky"
       /\ cpc' = "failed"
       /\ UNCHANGED <<workQueue, res, doneCount, file, panicked>>

\* the body of the loop after the receive
CheckResult ==
    /\ ~panicked
    /\ cpc = "check"
    /\ IF ~HashOk(res) THEN RequeueMismatch ELSE WriteVerified
    /\ UNCHANGED <<envVars, closed, wpc, wpw, attemptVars, interested, hsbuf, rx>>

Next ==
    \/ \E w \in Workers : Dial(w)
    \/ \E w \in Workers : Handshake(w)
    \/ \E w \in Workers : TakeWork(w)
    \/ \E w \in Workers : QueueClosed(w)
    \/ \E w \in Workers : SendRequest(w)
    \/ \E w \in Workers : ReadMessage(w)
    \/ \E w \in Workers : Requeue(w)
    \/ \E w \in Workers : EmitResult(w)
    \/ OpenFile
    \/ AwaitResult
    \/ CloseQueue
    \/ CheckResult

Spec == Init /\ [][Next]_vars

\* Scheduling.  Every goroutine that can take a step is eventually run, and every
\* blocking network call ends by its deadline (ReadMessage's fairness is that: a
\* peer that only sends keep-alives runs into the 30 s deadline).  A goroutine
\* parked on a channel is served in arrival order, so a worker that keeps waiting
\* for work, or to hand over its result, is not passed over forever (strong
\* fairness on TakeWork and EmitResult).
CoordinatorStep == OpenFile \/ AwaitResult \/ CloseQueue \/ CheckResult
WorkerStep(w) ==
    /\ w \in Workers
    /\ Dial(w) \/ Handshake(w) \/ QueueClosed(w) \/ SendRequest(w) \/ ReadMessage(w) \/ Requeue(w)

Fairness ==
    /\ WF_vars(CoordinatorStep)
    /\ \A w \in 1..MaxPeers :
        /\ WF_vars(WorkerStep(w))
        /\ SF_vars(w \in Workers /\ TakeWork(w))
        /\ SF_vars(w \in Workers /\ EmitResult(w))

\* Liveness is about runs in which the process stays up and the disk takes every
\* write: no peer is hostile (a hostile peer's frames can make a worker panic,
\* which ends the process), and the output file does not fail.
LiveInit ==
    /\ watch = FALSE
    /\ \E t \in Torrents, ps \in PeerLists :
        /\ \A w \in DOMAIN ps : ps[w] # "hostile"
        /\ InitWith(t, ps, "ok")

LiveSpec == LiveInit /\ [][Next]_vars /\ Fairness

\* One hostile peer and pieces long enough (more than maxBacklog blocks) for the
\* request pipeline to fill: the setting for attemptDownloadPiece's own laws.
BigTorrents ==
    { [Length |-> 163940, Files |-> <<>>, PieceLength |-> 163940, NumHashes |-> 1] }

PieceInit ==
    /\ watch = FALSE
    /\ \E t \in BigTorrents, d \in DiskKinds : InitWith(t, <<"hostile">>, d)

PieceSpec == PieceInit /\ [][Next]_vars

\* Metainfo of several shapes (a short last piece, a total that is a multiple of
\* the piece length, a multi-file torrent), downloaded from a seed next to a
\* peer that can fail or corrupt.
CoverTorrents ==
    { [Length |-> 20000, Files |-> <<>>, PieceLength |-> 16385, NumHashes |-> 2],
      [Length |-> 32768, Files |-> <<>>, PieceLength |-> 16384, NumHashes |-> 2],
      [Length |-> 0, Files |-> <<9000, 8000>>, PieceLength |-> 16384, NumHashes |-> 2] }

CoverInit ==
    /\ watch = FALSE
    /\ \E t \in CoverTorrents, d \in DiskKinds : InitWith(t, <<"seed", "faulty">>, d)

CoverSpec == CoverInit /\ [][Next]_vars

\* One connection to a peer that sends every kind of frame, with the history of
\* what was read kept: the setting for how attemptDownloadPiece treats frames.
FrameInit ==
    /\ watch = TRUE
    /\ \E t \in Torrents : InitWith(t, <<"hostile">>, "ok")

FrameSpec == FrameInit /\ [][Next]_vars

\* ------------------------------------------------ CreatePieceList on its own
\* Download's goroutines, channels and file before anything has started
Quiet ==
    /\ peers = <<>>
    /\ disk = "ok"
    /\ workQueue = <<>>
    /\ closed = FALSE
    /\ wpc = <<>>
    /\ wpw = <<>>
    /\ requested = <<>>
    /\ downloaded = <<>>
    /\ buf = <<>>
    /\ sent = <<>>
    /\ interested = <<>>
    /\ hsbuf = <<>>
    /\ watch = FALSE
    /\ rx = <<>>
    /\ res = NoRes
    /\ doneCount = 0
    /\ file = EmptyBag
    /\ panicked = FALSE

\* metainfo of every shape: single-file (Length > 0), multi-file (Files), both
\* or neither, with any number of 20-byte hashes in Pieces
PlanFiles ==
    {<<>>} \cup {<<a>> : a \in 1..MaxTotal}
           \cup {<<a, b>> : a \in 1..MaxTotal, b \in 1..MaxTotal}

PlanTorrents ==
    [Length : 0..MaxTotal, Files : PlanFiles, PieceLength : 1..MaxTotal, NumHashes : 0..MaxTotal]

PlanInit ==
    /\ torrent \in PlanTorrents
    /\ pieces = <<>>
    /\ cpc = "plan"
    /\ bf = <<>>
    /\ dec = NoDecoder
    /\ Quiet

\* pieces := t.CreatePieceList(infoHash)
PlanPieces ==
    /\ cpc = "plan"
    /\ pieces' = CreatePieceList(torrent)
    /\ cpc' = "planned"
    /\ UNCHANGED <<torrent, peers, disk, watch, bf, dec, workQueue, closed, wpc, wpw, attemptVars,
                   interested, hsbuf, rx, res, doneCount, file, panicked>>

PlanSpec == PlanInit /\ [][PlanPieces]_vars

\* ------------------------------------------------------------------ Bitfield
\* Go's integer division and remainder truncate toward zero
GoDiv(a, b) == IF a >= 0 THEN a \div b ELSE -((-a) \div b)
GoMod(a, b) == a - b * GoDiv(a, b)

\* byte(x) >> k and byte(1) << k for a shift count k >= 0
Shr(x, k) == IF k > 7 THEN 0 ELSE x \div (2 ^ k)
Shl1(k) == IF k > 7 THEN 0 ELSE 2 ^ k
\* x | m for m a single bit or zero
Or(x, m) == IF m = 0 \/ (x \div m) % 2 = 1 THEN x ELSE x + m

\* Bitfield.HasPiece: >> and % share a precedence level in Go and associate to
\* the left, so the test is ((bf[byteIndex] >> (7 - offset)) % 1) != 0
HasPiece(b, index) ==
    LET byteIndex == GoDiv(index, 8)
        offset == GoMod(index, 8)
    IN  IF byteIndex < 0 \/ byteIndex >= Len(b) THEN FALSE
        ELSE (Shr(b[byteIndex + 1], 7 - offset) % 1) # 0

\* Bitfield.SetPiece: the guard byteIndex >= 0 || byteIndex < len(bf) lets every
\* index through, and bf[byteIndex] panics outside the slice
SetPieceOn(b, index) ==
    LET byteIndex == GoDiv(index, 8)
        offset == GoMod(index, 8)
    IN  IF byteIndex >= 0 \/ byteIndex < Len(b)
        THEN IF byteIndex < 0 \/ byteIndex >= Len(b)
             THEN [panic |-> TRUE, bf |-> b]
             ELSE [panic |-> FALSE,
                   bf |-> [b EXCEPT ![byteIndex + 1] = Or(@, Shl1(7 - offset))]]
        ELSE [panic |-> FALSE, bf |-> b]

\* bitfields as they are made: all zero, of any length
BitInit ==
    /\ bf \in {[k \in 1..n |-> 0] : n \in 0..MaxBytes}
    /\ cpc = "bits"
    /\ torrent = [Length |-> 0, Files |-> <<>>, PieceLength |-> 1, NumHashes |-> 0]
    /\ pieces = <<>>
    /\ dec = NoDecoder
    /\ Quiet

\* bf.SetPiece(index), for indexes up to one step outside the bitfield
SetPiece ==
    /\ ~panicked
    /\ cpc = "bits"
    /\ \E index \in (-1)..(8 * Len(bf)) :
          LET r == SetPieceOn(bf, index) IN
          /\ bf' = r.bf
          /\ panicked' = r.panic
    /\ UNCHANGED <<torrent, peers, disk, pieces, watch, dec, workQueue, closed, wpc, wpw,
                   attemptVars, interested, hsbuf, rx, coordVars>>

BitSpec == BitInit /\ [][SetPiece]_vars

\* ------------------------------------------------------------ bencode Decoder
\* Byte strings here are sequences of one-character strings.
MaxStringLength == 10 * 1024 * 1024
MaxDepth == 50

DigitChars == <<"0", "1", "2", "3", "4", "5", "6", "7", "8", "9">>
IsDigit(c) == \E k \in DOMAIN DigitChars : DigitChars[k] = c
DigitValue(c) == (CHOOSE k \in DOMAIN DigitChars : DigitChars[k] = c) - 1

\* data[a:b]
Slice(data, a, b) == SubSeq(data, a + 1, b)

\* bytes.IndexByte
IndexByte(data, c) ==
    IF \E k \in DOMAIN data : data[k] = c
    THEN (CHOOSE k \in DOMAIN data : data[k] = c /\ \A j \in 1..(k - 1) : data[j] # c) - 1
    ELSE -1

RECURSIVE Decimal(_)
Decimal(ds) == IF ds = <<>> THEN 0 ELSE 10 * Decimal(SubSeq(ds, 1, Len(ds) - 1)) + DigitValue(ds[Len(ds)])

\* strconv.Atoi / strconv.ParseInt(s, 10, 64): an optional sign, then digits
\* (the inputs here stay far from the 64-bit range)
Atoi(str) ==
    LET signed == str # <<>> /\ str[1] \in {"+", "-"}
        ds == IF signed THEN Tail(str) ELSE str
    IN  IF ds = <<>> \/ \E k \in DOMAIN ds : ~IsDigit(ds[k])
        THEN [err |-> TRUE, v |-> 0]
        ELSE [err |-> FALSE, v |-> IF signed /\ str[1] = "-" THEN -Decimal(ds) ELSE Decimal(ds)]

\* what a parse function returns: err != nil, the bytes consumed, and the
\* decoder's RawInfo as the call leaves it
Failed(raw) == [err |-> TRUE, n |-> 0, raw |-> raw]
Parsed(n, raw) == [err |-> FALSE, n |-> n, raw |-> raw]

parseInteger(data, raw) ==
    IF Len(data) < 3 THEN Failed(raw)
    ELSE LET endIdx == IndexByte(data, "e")
             body == Slice(data, 1, endIdx)
         IN  IF endIdx = -1 THEN Failed(raw)
             ELSE IF Len(body) = 0 THEN Failed(raw)
             ELSE IF body[1] = "0" /\ Len(body) > 1 THEN Failed(raw)
             ELSE IF body[1] = "-" /\ (Len(body) = 1 \/ body[2] = "0") THEN Failed(raw)
             ELSE IF Atoi(body).err THEN Failed(raw)
             ELSE Parsed(endIdx + 1, raw)

\* parseString: err, the bytes consumed, and the string (a slice of data)
parseString(data) ==
    LET colonIdx == IndexByte(data, ":")
        lenBuf == Slice(data, 0, colonIdx)
        length == Atoi(lenBuf)
        totalNeeded == colonIdx + 1 + length.v
        bad == [err |-> TRUE, n |-> 0, str |-> <<>>]
    IN  IF colonIdx <= 0 THEN bad
        ELSE IF lenBuf[1] = "0" /\ Len(lenBuf) > 1 THEN bad
        ELSE IF length.err \/ length.v < 0 THEN bad
        ELSE IF length.v > MaxStringLength THEN bad
        ELSE IF Len(data) < totalNeeded THEN bad
        ELSE [err |-> FALSE, n |-> totalNeeded, str |-> Slice(data, colonIdx + 1, totalNeeded)]

\* key == "info" && d.depth == 1
TrapsInfoAnyDepth(key, depth) == key = <<"i", "n", "f", "o">>
TrapsInfo(key, depth) == key = <<"i", "n", "f", "o">> /\ depth = 1

\* data is a slice of the decoder's input that starts at offset base of it;
\* depth is d.depth on entry
RECURSIVE parseValue(_, _, _, _)
RECURSIVE listLoop(_, _, _, _, _)
RECURSIVE dictLoop(_, _, _, _, _)

\* parseList's loop from currentPosition on, then the closing 'e'
listLoop(data, base, depth, raw, currentPosition) ==
    IF currentPosition < Len(data) /\ data[currentPosition + 1] # "e"
    THEN LET r == parseValue(Slice(data, currentPosition, Len(data)), base + currentPosition,
                             depth, raw)
         IN  IF r.err THEN Failed(r.raw)
             ELSE listLoop(data, base, depth, r.raw, currentPosition + r.n)
    ELSE IF currentPosition >= Len(data) \/ data[currentPosition + 1] # "e" THEN Failed(raw)
    ELSE Parsed(currentPosition + 1, raw)

parseList(data, base, depth, raw) ==
    IF depth + 1 > MaxDepth THEN Failed(raw)
    ELSE IF Len(data) < 2 \/ data[1] # "l" THEN Failed(raw)
    ELSE listLoop(data, base, depth + 1, raw, 1)

\* parseDict's loop from currentPosition on, then the closing 'e'
dictLoop(data, base, depth, raw, currentPosition) ==
    IF currentPosition < Len(data) /\ data[currentPosition + 1] # "e"
    THEN LET k == parseString(Slice(data, currentPosition, Len(data)))
             valuePosition == currentPosition + k.n
             r == parseValue(Slice(data, valuePosition, Len(data)), base + valuePosition,
                             depth, raw)
             trapped == IF TrapsInfo(k.str, depth)
                        THEN RawSlice(base + valuePosition, base + valuePosition + r.n)
                        ELSE r.raw
         IN  IF k.err THEN Failed(raw)
             ELSE IF valuePosition >= Len(data) THEN Failed(raw)
             ELSE IF r.err THEN Failed(r.raw)
             ELSE dictLoop(data, base, depth, trapped, valuePosition + r.n)
    ELSE IF currentPosition >= Len(data) \/ data[currentPosition + 1] # "e" THEN Failed(raw)
    ELSE Parsed(currentPosition + 1, raw)

parseDict(data, base, depth, raw) ==
    IF depth + 1 > MaxDepth THEN Failed(raw)
    ELSE IF Len(data) < 2 \/ data[1] # "d" THEN Failed(raw)
    ELSE dictLoop(data, base, depth + 1, raw, 1)

parseValue(data, base, depth, raw) ==
    IF Len(data) = 0 THEN Failed(raw)
    ELSE IF data[1] = "i" THEN parseInteger(data, raw)
    ELSE IF IsDigit(data[1])
         THEN LET r == parseString(data) IN IF r.err THEN Failed(raw) ELSE Parsed(r.n, raw)
    ELSE IF data[1] = "l" THEN parseList(data, base, depth, raw)
    ELSE IF data[1] = "d" THEN parseDict(data, base, depth, raw)
    ELSE Failed(raw)

\* bencoded keys and values the inputs are built from
KeyInfo == <<"4", ":", "i", "n", "f", "o">>
KeyA == <<"1", ":", "a">>
KeyAnnounce == <<"8", ":", "a", "n", "n", "o", "u", "n", "c", "e">>
KeyExtra == <<"5", ":", "e", "x", "t", "r", "a">>
ValString == <<"1", ":", "x">>
ValUrl == <<"3", ":", "u", "r", "l">>
ValInteger == <<"i", "7", "e">>
ValDict == <<"d", "4", ":", "n", "a", "m", "e", "1", ":", "a", "e">>
ValNestedInfo == <<"d", "4", ":", "i", "n", "f", "o", "1", ":", "y", "e">>
ValListedInfo == <<"l", "d", "4", ":", "i", "n", "f", "o", "i", "1", "e", "e", "e">>
ValNegativeZero == <<"i", "-", "0", "e">>

\* the inputs: a dictionary of up to MaxEntries pairs, at the root or inside a
\* root list, with keys and values from these encodings, and the fixture
BKeys == { KeyInfo, KeyA }
BValues == { ValString, ValInteger, ValDict, ValNestedInfo, ValListedInfo, ValNegativeZero }

BEntries == UNION {[1..n -> [key : BKeys, val : BValues]] : n \in 0..MaxEntries}

FixtureEntries ==
    << [key |-> KeyAnnounce, val |-> ValUrl],
       [key |-> KeyInfo, val |-> ValDict],
       [key |-> KeyExtra, val |-> ValString] >>

RECURSIVE Flatten(_)
Flatten(es) == IF es = <<>> THEN <<>> ELSE Head(es).key \o Head(es).val \o Flatten(Tail(es))

Encode(root, es) ==
    IF root = "dict" THEN <<"d">> \o Flatten(es) \o <<"e">>
    ELSE <<"l", "d">> \o Flatten(es) \o <<"e", "e">>

\* NewDecoder(data)
NewDecoder(root, es) ==
    [root |-> root, entries |-> es, data |-> Encode(root, es), RawInfo |-> NoRaw, state |-> "new"]

DecodeInit ==
    /\ dec \in {NewDecoder(root, es) : root \in {"dict", "list"}, es \in BEntries}
                \cup {NewDecoder("dict", FixtureEntries)}
    /\ cpc = "bencode"
    /\ torrent = [Length |-> 0, Files |-> <<>>, PieceLength |-> 1, NumHashes |-> 0]
    /\ pieces = <<>>
    /\ bf = <<>>
    /\ Quiet

\* d.Decode()
Decode ==
    /\ cpc = "bencode"
    /\ dec.state = "new"
    /\ LET r == parseValue(dec.data, 0, 0, dec.RawInfo)
       IN  dec' = [dec EXCEPT !.RawInfo = r.raw, !.state = IF r.err THEN "err" ELSE "ok"]
    /\ UNCHANGED <<torrent, peers, disk, pieces, watch, bf, workQueue, closed, wpc, wpw,
                   attemptVars, interested, hsbuf, rx, coordVars, panicked>>

DecodeSpec == DecodeInit /\ [][Decode]_vars

\* ------------------------------------------------------------------ claims
\* where a piece index can be
InQueue(i) == Cardinality({k \in DOMAIN workQueue : workQueue[k].Index = i})
HeldBy(i) == {w \in Workers : wpw[w].Index = i}
InResult(i) == IF res.Index = i THEN 1 ELSE 0
WritesAt(off) == {r \in BagToSet(file) : r.Offset = off}
RECURSIVE SumCopies(_)
SumCopies(rs) ==
    IF rs = {} THEN 0
    ELSE LET r == CHOOSE x \in rs : TRUE IN CopiesIn(r, file) + SumCopies(rs \ {r})
Writes(i) == SumCopies(WritesAt(i * torrent.PieceLength))

\* C1: every planned piece index is in exactly one place: once in the work queue,
\* or held by one worker, or carried by the result the coordinator has in hand,
\* or written once to the file; none is missing and none is duplicated.
C1_PiecePartition ==
    \A i \in DOMAIN pieces :
        InQueue(i) + Cardinality(HeldBy(i)) + InResult(i) + Writes(i) = 1

C1_Witness ==
    /\ \E i \in DOMAIN pieces : Writes(i) = 1
    /\ \E i \in DOMAIN pieces : InResult(i) = 1
    /\ \E w \in Workers : wpc[w] = "terminated" /\ interested[w]

\* C2: every write to the output file carries a buffer whose SHA-1 is the planned
\* hash of the piece at that offset.
C2_WrittenPassedHash ==
    \A r \in BagToSet(file) :
        \E i \in DOMAIN pieces :
            /\ r.Offset = i * torrent.PieceLength
            /\ Sha1(r.Buf) = Sha1(Content(torrent, i))

C2_Witness ==
    /\ file # EmptyBag
    /\ cpc = "check"
    /\ Sha1(res.Buf) # Sha1(Content(torrent, res.Index))

\* C3: no piece's byte range is written more than once, and when Download has
\* returned nil every piece's byte range has been written exactly once.
C3_WrittenOnce ==
    \A i \in DOMAIN pieces :
        /\ Writes(i) <= 1
        /\ cpc = "returned" => Writes(i) = 1

C3_Witness ==
    /\ cpc = "returned"
    /\ NumPieces >= 2
    /\ \E w \in Workers : wpc[w] = "terminated" /\ interested[w]

\* C5: while a worker is inside attemptDownloadPiece, requested - downloaded never
\* exceeds maxBacklog * blockSize, whatever blocks the peer sends.
C5_PipelineBound ==
    \A w \in Workers :
        wpc[w] = "download" => requested[w] - downloaded[w] <= maxBacklog * blockSize

\* C6: the REQUESTs of one attempt at a piece of length P each ask for 1..blockSize
\* bytes ending at or before P, the first at offset 0 and each next one where the
\* one before ended.
C6_BlockSizeLaw ==
    \A w \in Workers :
        \A k \in DOMAIN sent[w] :
            LET rq == sent[w][k].Payload IN
            /\ sent[w][k].ID = MsgRequest
            /\ rq.index = wpw[w].Index
            /\ 0 < rq.length /\ rq.length <= blockSize
            /\ rq.begin + rq.length <= wpw[w].Length
            /\ rq.begin = IF k = 1 THEN 0
                          ELSE sent[w][k - 1].Payload.begin + sent[w][k - 1].Payload.length

C6_Witness ==
    \E w \in Workers :
        /\ Len(sent[w]) > maxBacklog
        /\ sent[w][Len(sent[w])].Payload.length < blockSize
        /\ requested[w] = wpw[w].Length

\* C7: a worker whose attempt at a piece failed keeps that PieceWork until it
\* appends it, once, to the work queue, hands no result to the coordinator, and
\* from then on stays terminated and holds no work.
C7_FailedWorkerRequeues ==
    [][\A w \in Workers :
        /\ (wpc[w] = "download" /\ wpc'[w] \notin {"download", "emit"}) =>
              /\ wpc'[w] = "requeue"
              /\ wpw'[w] = wpw[w]
              /\ workQueue' = workQueue
              /\ res' = res
        /\ wpc[w] = "requeue" =>
              \/ /\ wpc'[w] = "requeue"
                 /\ wpw'[w] = wpw[w]
                 /\ InQueue(wpw[w].Index)' = 0
                 /\ res' # res => res'.Index # wpw[w].Index
              \/ /\ wpc'[w] = "terminated"
                 /\ workQueue' = Append(workQueue, wpw[w])
                 /\ res' = res
        /\ wpc[w] = "terminated" => wpc'[w] = "terminated" /\ wpw'[w] = NoWork
      ]_vars

C7_Witness ==
    \E w \in Workers :
        /\ wpc[w] = "terminated"
        /\ interested[w]
        /\ workQueue # <<>>
        /\ \E v \in Workers : wpc[v] = "download"

\* C8: when the result in hand fails the hash check, the coordinator's step appends
\* the planned PieceWork of that index (planned hash, planned length) to the work
\* queue, leaves the file and doneCount as they are, goes back to the loop, and
\* changes no worker: the worker that sent the result keeps looping.
C8_HashFailureRequeues ==
    [][(cpc = "check" /\ Sha1(res.Buf) # Sha1(Content(torrent, res.Index)) /\ cpc' # cpc) =>
          /\ workQueue' = Append(workQueue,
                                 [Index  |-> res.Index,
                                  Hash   |-> Sha1(Content(torrent, res.Index)),
                                  Length |-> CreatePieceList(torrent)[res.Index].Length])
          /\ file' = file
          /\ doneCount' = doneCount
          /\ cpc' = "loop"
          /\ wpc' = wpc
          /\ wpw' = wpw
      ]_vars

\* the coordinator has put piece 0 back behind piece 1 (no worker has failed, so
\* no worker did), and the workers are all still in their loops
C8_Witness ==
    /\ cpc = "loop"
    /\ doneCount = 0
    /\ Len(workQueue) = 2
    /\ workQueue[1].Index = 1
    /\ workQueue[2].Index = 0
    /\ Workers # {}
    /\ \A w \in Workers : wpc[w] = "loop"

\* C4: when one peer is a seed (its worker gets through the handshake, never
\* fails and is served the true bytes of every block it asks for), whatever the
\* other workers do (fail at any point and requeue, deliver corrupt pieces),
\* doneCount reaches the piece count and Download returns nil.
SeedPresent == \E w \in Workers : peers[w] = "seed"
C4_LivenessUnderLoss ==
    SeedPresent =>
        <>(cpc = "returned" /\ doneCount = NumPieces)

C4_Witness ==
    /\ cpc = "returned"
    /\ doneCount = NumPieces
    /\ disk = "ok"
    /\ \E w \in Workers : peers[w] = "seed"
    /\ \E w \in Workers : peers[w] = "faulty" /\ wpc[w] = "terminated" /\ interested[w]

AllTerminated == \A w \in Workers : wpc[w] = "terminated"

\* C9 as stated: once every worker has terminated with doneCount below the piece
\* count, Download never returns.
C9_NeverReturns ==
    (AllTerminated /\ doneCount < NumPieces) => cpc \notin {"returned", "failed"}

\* C9: once every worker has terminated with doneCount below the piece count, that
\* stays so, Download never returns nil, and a coordinator that is waiting on the
\* result channel waits there forever; the only way out of Download is the error
\* of a failed open or of a failed write of a result received earlier.
C9_NeverReturnsNil ==
    /\ []((AllTerminated /\ doneCount < NumPieces) => cpc # "returned")
    /\ [][(AllTerminated /\ doneCount < NumPieces) =>
            /\ AllTerminated' /\ doneCount' < NumPieces
            /\ cpc = "recv" => (cpc' = "recv" /\ UNCHANGED vars)
            /\ cpc' \in {cpc, "loop", "recv", "failed"}
         ]_vars

C9_Witness ==
    /\ AllTerminated
    /\ Workers # {}
    /\ doneCount = 1
    /\ doneCount < NumPieces
    /\ cpc = "recv"

AllExited == \A w \in Workers : wpc[w] \in {"done", "terminated"}

\* C10: once doneCount has reached the piece count the coordinator closes the work
\* queue and in the end every worker has returned; after the close no result is
\* handed over, no worker takes work, and a worker waiting in its loop can only
\* leave it as done, for good.
C10_WorkersExitAfterClose ==
    /\ (doneCount = NumPieces) ~> (closed /\ AllExited)
    /\ [][closed =>
            /\ closed'
            /\ res' = res
            /\ workQueue' = workQueue
            /\ \A w \in Workers :
                /\ wpc'[w] \notin {"download", "emit", "requeue"}
                /\ wpc[w] = "loop" => wpc'[w] \in {"loop", "done"}
                /\ wpc[w] = "done" => wpc'[w] = "done"
         ]_vars

C10_Witness ==
    /\ closed
    /\ AllExited
    /\ Cardinality({w \in Workers : wpc[w] = "done"}) >= 2

\* what a worker goroutine owns
WorkerState(w) ==
    <<wpc[w], wpw[w], requested[w], downloaded[w], buf[w], sent[w], interested[w]>>

\* worker w's session ends before its download loop: its dial fails, or it is
\* in the handshake and does not come out of it into the loop
StopsEarly(w) ==
    \/ wpc[w] = "dial" /\ wpc'[w] \notin {"dial", "handshake"}
    \/ /\ wpc[w] = "handshake"
       /\ wpc'[w] # "loop"
       /\ wpc'[w] # "handshake" \/ hsbuf'[w] # hsbuf[w]

\* C11: a worker has sent INTERESTED or holds PieceWork only if it read a
\* handshake carrying the local info hash in its info_hash field, and it sends
\* INTERESTED only in coming out of the handshake; a worker whose dial fails,
\* whose handshake I/O fails or whose peer answers with another info hash
\* terminates without INTERESTED, and that step changes neither the work queue,
\* nor any other worker, nor the coordinator, nor the process.
C11_HandshakeGate ==
    /\ [](\A w \in Workers :
            (interested[w] \/ wpw[w] # NoWork \/ wpc[w] \notin {"dial", "handshake", "terminated"}) =>
                /\ interested[w]
                /\ hsbuf[w].at = 28 /\ hsbuf[w].InfoHash = infoHash /\ ~hsbuf[w].eof)
    /\ [][\A w \in Workers :
            /\ (interested'[w] /\ ~interested[w]) => (wpc[w] = "handshake" /\ wpc'[w] = "loop")
            /\ StopsEarly(w) =>
                  /\ wpc'[w] = "terminated"
                  /\ ~interested'[w]
                  /\ wpw'[w] = NoWork
                  /\ workQueue' = workQueue
                  /\ panicked' = panicked
                  /\ UNCHANGED coordVars
                  /\ \A v \in Workers \ {w} : WorkerState(v)' = WorkerState(v)
         ]_vars

\* C12: no piece index is held by two workers at once, and an index that has
\* been written to the file is held by no worker.
C12_ExclusiveOwnership ==
    \A i \in DOMAIN pieces :
        /\ Cardinality(HeldBy(i)) <= 1
        /\ Writes(i) > 0 => HeldBy(i) = {}

\* two workers are inside attemptDownloadPiece at once, each on its own piece
C12_Witness ==
    \E w, v \in Workers :
        /\ w # v
        /\ wpc[w] = "download" /\ wpc[v] = "download"
        /\ wpw[w].Index = 1 /\ wpw[v].Index = 0
        /\ downloaded[w] > 0 /\ downloaded[v] = 0
        /\ workQueue = <<>>

\* the piece indexes with at least one write at their offset
WrittenPieces == {i \in DOMAIN pieces : Writes(i) > 0}

TotalLength == IF torrent.Length > 0 THEN torrent.Length ELSE SumLengths(torrent.Files)
CeilDiv(a, b) == (a + b - 1) \div b

\* C14: for total length T > 0 (Length when positive, else the sum of the file
\* lengths), piece length P > 0 and N = ceil(T/P) hashes, the plan has N pieces,
\* piece i at position i with Index i, of length P before the last and of
\* length T - (N-1)*P for the last (P when P divides T).
C14_LastPieceSize ==
    (/\ cpc = "planned"
     /\ TotalLength > 0
     /\ torrent.PieceLength > 0
     /\ torrent.NumHashes = CeilDiv(TotalLength, torrent.PieceLength)) =>
        LET N == CeilDiv(TotalLength, torrent.PieceLength)
            P == torrent.PieceLength
        IN  /\ DOMAIN pieces = 0..(N - 1)
            /\ \A i \in 0..(N - 1) :
                  /\ pieces[i].Index = i
                  /\ pieces[i].Length = IF i < N - 1 THEN P ELSE TotalLength - (N - 1) * P
            /\ TotalLength % P = 0 => pieces[N - 1].Length = P

\* a multi-file torrent whose last piece is short
C14_Witness ==
    /\ cpc = "planned"
    /\ torrent.Length = 0
    /\ torrent.Files = <<2, 3>>
    /\ torrent.PieceLength = 2
    /\ torrent.NumHashes = 3
    /\ pieces[2].Length = 1

\* the byte range [lo, hi) of a write
Lo(r) == r.Offset
Hi(r) == r.Offset + BufLen(r.Buf)

RECURSIVE SumWritten(_)
SumWritten(rs) ==
    IF rs = {} THEN 0
    ELSE LET r == CHOOSE x \in rs : TRUE
         IN  CopiesIn(r, file) * BufLen(r.Buf) + SumWritten(rs \ {r})

\* C15: when Download has returned nil, the byte ranges of the writes are
\* pairwise disjoint (no write happened twice, no two writes overlap), every
\* range lies in [0, total length), and the lengths add up to the total length:
\* the writes tile [0, total length) exactly.
C15_PieceCoverage ==
    cpc = "returned" =>
        /\ \A r \in BagToSet(file) :
              /\ CopiesIn(r, file) = 1
              /\ 0 <= Lo(r) /\ Hi(r) <= TotalLength
              /\ \A q \in BagToSet(file) \ {r} : Hi(r) <= Lo(q) \/ Hi(q) <= Lo(r)
        /\ SumWritten(BagToSet(file)) = TotalLength

\* a multi-file torrent is complete although one of the two workers failed
C15_Witness ==
    /\ cpc = "returned"
    /\ torrent.Files # <<>>
    /\ SumWritten(BagToSet(file)) = 17000
    /\ \E w \in Workers : peers[w] = "faulty" /\ wpc[w] = "terminated" /\ interested[w]

\* C16: while a worker has a piece buffer, downloaded never exceeds len(buf),
\* and the attempt has ended with the piece taken as complete exactly when
\* downloaded = len(buf), whatever blocks were received.
C16_ProgressInvariant ==
    \A w \in Workers :
        wpc[w] \in {"download", "emit", "requeue"} =>
            /\ downloaded[w] <= BufLen(buf[w])
            /\ wpc[w] = "emit" <=> downloaded[w] = BufLen(buf[w])

\* what attemptDownloadPiece keeps between two reads
Progress(w) == <<requested[w], downloaded[w], buf[w], sent[w]>>

\* worker w has just read a frame whose length prefix is zero
KeepAliveRead(w) ==
    /\ rx'[w] # rx[w]
    /\ ~rx'[w].frame.broken
    /\ rx'[w].frame.length = 0

\* C17: a p2p.Read that meets a zero length prefix returns no message and no
\* error having taken 4 bytes off the stream, and the worker that read it keeps
\* requested, downloaded and the piece buffer as they were and stays in its
\* download loop.
C17_KeepAlive ==
    [][\A w \in Workers :
        KeepAliveRead(w) =>
            /\ rx'[w].ret = [err |-> FALSE, msg |-> NoMsg, n |-> 4]
            /\ Progress(w)' = Progress(w)
            /\ wpc[w] = "download" /\ wpc'[w] = "download"
            /\ wpw'[w] = wpw[w]
            /\ panicked' = panicked
      ]_vars

\* a keep-alive arrived in the middle of a piece
C17_Witness ==
    \E w \in Workers :
        /\ rx[w].frame = KeepAliveFrame
        /\ wpc[w] = "download"
        /\ 0 < downloaded[w] /\ downloaded[w] < wpw[w].Length

\* worker w has just read a message that is not PIECE
OtherMessageRead(w) ==
    /\ rx'[w] # rx[w]
    /\ ~rx'[w].ret.err
    /\ rx'[w].ret.msg # NoMsg
    /\ rx'[w].ret.msg.ID # MsgPiece

\* worker w has just read a PIECE message that fits its buffer
BlockRead(w) ==
    /\ rx'[w] # rx[w]
    /\ ~rx'[w].ret.err
    /\ rx'[w].ret.msg # NoMsg
    /\ rx'[w].ret.msg.ID = MsgPiece
    /\ rx'[w].ret.msg.Payload.len >= 8
    /\ rx'[w].ret.msg.Payload.begin <= BufLen(buf[w])

\* C18: a message that is not PIECE (CHOKE, UNCHOKE, HAVE, BITFIELD, another
\* ID) changes neither requested, nor downloaded, nor the buffer, and leaves
\* the worker in its download loop; whenever the refill condition holds the
\* next REQUEST can be written, and a block that arrives is counted, whether
\* or not an UNCHOKE has ever been read.
C18_OtherMessagesIgnored ==
    /\ [][\A w \in Workers :
            /\ OtherMessageRead(w) =>
                  /\ Progress(w)' = Progress(w)
                  /\ wpc[w] = "download" /\ wpc'[w] = "download"
                  /\ wpw'[w] = wpw[w]
                  /\ panicked' = panicked
            /\ BlockRead(w) =>
                  downloaded'[w] = downloaded[w] + BufLen(rx'[w].ret.msg.Payload.block)
         ]_vars
    /\ [](\A w \in Workers :
            (~panicked /\ wpc[w] = "download" /\ CanRequest(w)) =>
                ENABLED <<SendRequest(w)>>_sent)

\* a CHOKE arrived in the middle of the second piece, from a peer that has
\* never sent UNCHOKE and whose first piece is already on disk
C18_Witness ==
    \E w \in Workers :
        /\ ~rx[w].unchoked
        /\ rx[w].frame = PlainFrame(MsgChoke, 0)
        /\ wpc[w] = "download"
        /\ 0 < downloaded[w]
        /\ doneCount = 1

\* bit (7 - i mod 8) of byte (i div 8): piece i under the standard convention
BitSet(b, i) == (b[(i \div 8) + 1] \div (2 ^ (7 - (i % 8)))) % 2 = 1

\* C19: for every bitfield and every index i inside it, HasPiece(i) is false
\* while bit i is clear, SetPiece(i) sets exactly bit i without panicking,
\* HasPiece(i) is true afterwards, and HasPiece(j) is as before for j # i.
C19_BitfieldRoundTrip ==
    cpc = "bits" =>
        \A i \in 0..(8 * Len(bf) - 1) :
            LET r == SetPieceOn(bf, i) IN
            /\ ~BitSet(bf, i) => ~HasPiece(bf, i)
            /\ ~r.panic
            /\ BitSet(r.bf, i)
            /\ HasPiece(r.bf, i)
            /\ \A j \in 0..(8 * Len(bf) - 1) : j # i => HasPiece(r.bf, j) = HasPiece(bf, j)

\* the pairs of the input's dictionary whose key is `info`, the last of them
\* (the one a dictionary lookup gives), and where its value starts in the input
InfoAt == {k \in DOMAIN dec.entries : dec.entries[k].key = KeyInfo}
LastInfo == CHOOSE k \in InfoAt : \A j \in InfoAt : j <= k
ValueStart(k) == 1 + Len(Flatten(SubSeq(dec.entries, 1, k - 1))) + Len(dec.entries[k].key)
RawBytes == Slice(dec.data, dec.RawInfo.start, dec.RawInfo.end)
Fixture ==
    <<"d", "8", ":", "a", "n", "n", "o", "u", "n", "c", "e", "3", ":", "u", "r", "l",
      "4", ":", "i", "n", "f", "o", "d", "4", ":", "n", "a", "m", "e", "1", ":", "a", "e",
      "5", ":", "e", "x", "t", "r", "a", "1", ":", "x", "e">>

\* C20: after a Decode that succeeded on an input whose root is a dictionary
\* with a key `info`, RawInfo is the slice of the input that holds the value of
\* that key (same offsets, same bytes); for the fixture it is d4:name1:ae; when
\* `info` occurs only in nested dictionaries or lists, or the root is a list,
\* RawInfo stays nil.
C20_RawInfoCapture ==
    dec.state = "ok" =>
        /\ (dec.root = "dict" /\ InfoAt # {}) =>
              /\ dec.RawInfo = RawSlice(ValueStart(LastInfo),
                                        ValueStart(LastInfo) + Len(dec.entries[LastInfo].val))
              /\ RawBytes = dec.entries[LastInfo].val
        /\ (dec.root # "dict" \/ InfoAt = {}) => dec.RawInfo = NoRaw
        /\ dec.data = Fixture =>
              RawBytes = <<"d", "4", ":", "n", "a", "m", "e", "1", ":", "a", "e">>

\* a top-level `info` followed by a key whose value holds a nested `info`
C20_Witness ==
    /\ dec.state = "ok"
    /\ dec.root = "dict"
    /\ dec.entries = <<[key |-> KeyInfo, val |-> ValDict], [key |-> KeyA, val |-> ValNestedInfo]>>
    /\ dec.RawInfo = RawSlice(7, 18)

\* C21: the work queue never holds more than N = len(pieces) entries, and
\* whenever a worker (workQueue <- pw) or the coordinator (the hash differs) is
\* about to put a piece back, the queue holds at most N-1 entries, so that send
\* goes through at once: the step that makes it is enabled.
C21_RequeueNeverBlocks ==
    /\ Len(workQueue) <= NumPieces
    /\ \A w \in Workers :
          wpc[w] = "requeue" =>
              /\ Len(workQueue) <= NumPieces - 1
              /\ ~panicked => ENABLED Requeue(w)
    /\ (cpc = "check" /\ ~HashOk(res)) =>
          /\ Len(workQueue) <= NumPieces - 1
          /\ ~panicked => ENABLED CheckResult

\* a failed worker has put piece 0 back behind the untouched rest of the queue,
\* which is full again
C21_Witness ==
    /\ Len(workQueue) = NumPieces
    /\ workQueue[1].Index # 0
    /\ \E w \in Workers : wpc[w] = "terminated" /\ interested[w]

\* worker w holds a PieceWork or is inside attemptDownloadPiece (or between it
\* and the requeue / result send that follows)
Busy(w) == wpw[w] # NoWork \/ wpc[w] \in {"download", "emit", "requeue"}

\* C22: nothing is sent on the closed work queue.  The step that closes the
\* queue is taken with no worker holding a PieceWork or inside
\* attemptDownloadPiece and with no result under the coordinator's hash check;
\* that stays so while the queue is closed; and no step taken after the close
\* adds an entry to the queue or is one of the two sends (a worker's
\* workQueue <- pw, the coordinator's requeue in its hash check).
C22_NoSendOnClosed ==
    /\ [](closed => /\ \A w \in Workers : ~Busy(w)
                    /\ cpc = "returned"
                    /\ res = NoRes)
    /\ [][/\ (~closed /\ closed') => \A w \in Workers : ~Busy(w) /\ ~Busy(w)'
          /\ closed => /\ closed'
                       /\ Len(workQueue') <= Len(workQueue)
                       /\ ~CheckResult
                       /\ \A w \in Workers : ~Requeue(w)
         ]_vars

\* the queue is closed after a worker failed and put its piece back, while
\* another worker still waits in its range loop
C22_Witness ==
    /\ closed
    /\ \E w \in Workers : wpc[w] = "terminated" /\ interested[w]
    /\ \E w \in Workers : wpc[w] = "loop"

\* worker w has just read a PIECE message, whatever its payload
PieceRead(w) ==
    /\ ReadMessage(w)
    /\ ~rx'[w].ret.err
    /\ rx'[w].ret.msg # NoMsg
    /\ rx'[w].ret.msg.ID = MsgPiece

\* C23: whatever PIECE message the peer sends (any payload length, any begin,
\* any block length), the worker that reads it meets no out-of-range slice
\* expression (the process does not panic): it either returns an error and puts
\* the piece back, or stays in the attempt with a buffer that still has the
\* piece's length and is the old one with the block copied at begin, cut at the
\* buffer's end.
C23_PieceBoundsSafe ==
    [][\A w \in Workers :
        PieceRead(w) =>
            /\ ~panicked'
            /\ \/ wpc'[w] = "requeue" /\ buf'[w] = buf[w]
               \/ /\ wpc'[w] \in {"download", "emit"}
                  /\ rx'[w].ret.msg.Payload.begin <= BufLen(buf[w])
                  /\ buf'[w] = CopyAt(buf[w], rx'[w].ret.msg.Payload.begin,
                                      rx'[w].ret.msg.Payload.block)
                  /\ BufLen(buf'[w]) = wpw[w].Length
      ]_vars

====
